---- MODULE Spec2Model ----
(***************************************************************************)
(* Model of projects/project_2/data_preprocessing.py: the per-patient      *)
(* missing-data imputer (missing_data_imputer) and the tables it works on. *)
(*                                                                         *)
(* A cell of a table is an exact rational <<numerator, denominator>> with  *)
(* a positive denominator in lowest terms; the missing value (NaN) is the  *)
(* pair <<0, 0>>.  A table row is a function from column names to cells.   *)
(***************************************************************************)
EXTENDS Integers, Sequences, FiniteSets, TLC

\* ---------------------------------------------------------------- bounds
\* number of patients in an enumerated observation table
NumPatients == 3
\* number of freely chosen cells at the head of the first patient's series
MaxBody == 3
\* the high one of the two observed values 1 and MaxVal of the enumerated series
MaxVal == 2

\* -------------------------------------------------------- exact numbers
NaN == <<0, 0>>

IsNa(c) == c[2] = 0

Abs(n) == IF n < 0 THEN -n ELSE n

RECURSIVE GCD(_, _)
GCD(a, b) == IF b = 0 THEN a ELSE GCD(b, a % b)

\* the rational n/d (d # 0) in lowest terms with a positive denominator
Rat(n, d) ==
  LET s == IF d < 0 THEN -1 ELSE 1
      g == GCD(Abs(n), Abs(d))
  IN  <<(s * n) \div g, (s * d) \div g>>

Num(n) == <<n, 1>>

\* float arithmetic: any operand NaN gives NaN
RAdd(a, b) == IF IsNa(a) \/ IsNa(b) THEN NaN
              ELSE Rat(a[1] * b[2] + b[1] * a[2], a[2] * b[2])

RSub(a, b) == IF IsNa(a) \/ IsNa(b) THEN NaN
              ELSE Rat(a[1] * b[2] - b[1] * a[2], a[2] * b[2])

RMul(a, b) == IF IsNa(a) \/ IsNa(b) THEN NaN
              ELSE Rat(a[1] * b[1], a[2] * b[2])

RDiv(a, b) == IF IsNa(a) \/ IsNa(b) THEN NaN
              ELSE Rat(a[1] * b[2], a[2] * b[1])

\* comparisons of non-missing numbers
RLess(a, b) == a[1] * b[2] < b[1] * a[2]

RLeq(a, b) == a[1] * b[2] <= b[1] * a[2]

RECURSIVE RSum(_)
RSum(s) == IF s = <<>> THEN Num(0) ELSE RAdd(Head(s), RSum(Tail(s)))

\* ------------------------------------------------------ module constants
IDENTIFIERS == <<"pid", "Time">>

TYPICAL_VALUES_keys ==
  {"pid", "Time", "Age", "EtCO2", "PTT", "BUN", "Lactate", "Temp", "Hgb",
   "HCO3", "BaseExcess", "RRate", "Fibrinogen", "Phosphate", "WBC",
   "Creatinine", "PaCO2", "AST", "FiO2", "Platelets", "SaO2", "Glucose",
   "ABPm", "Magnesium", "Potassium", "ABPd", "Calcium", "Alkalinephos",
   "SpO2", "Bilirubin_direct", "Chloride", "Hct", "Heartrate",
   "Bilirubin_total", "TroponinI", "ABPs", "pH"}

\* the typical values, written to the three decimals of the "%.3f" float format
TYPICAL_VALUES ==
  [c \in TYPICAL_VALUES_keys |->
     CASE c = "pid"              -> Rat(15788831, 1000)
       [] c = "Time"             -> Rat(7014, 1000)
       [] c = "Age"              -> Rat(62074, 1000)
       [] c = "EtCO2"            -> Rat(32883, 1000)
       [] c = "PTT"              -> Rat(40091, 1000)
       [] c = "BUN"              -> Rat(23193, 1000)
       [] c = "Lactate"          -> Rat(2860, 1000)
       [] c = "Temp"             -> Rat(36852, 1000)
       [] c = "Hgb"              -> Rat(10628, 1000)
       [] c = "HCO3"             -> Rat(23488, 1000)
       [] c = "BaseExcess"       -> Rat(-1239, 1000)
       [] c = "RRate"            -> Rat(18154, 1000)
       [] c = "Fibrinogen"       -> Rat(262497, 1000)
       [] c = "Phosphate"        -> Rat(3613, 1000)
       [] c = "WBC"              -> Rat(11739, 1000)
       [] c = "Creatinine"       -> Rat(1496, 1000)
       [] c = "PaCO2"            -> Rat(41116, 1000)
       [] c = "AST"              -> Rat(193445, 1000)
       [] c = "FiO2"             -> Rat(702, 1000)
       [] c = "Platelets"        -> Rat(204666, 1000)
       [] c = "SaO2"             -> Rat(93011, 1000)
       [] c = "Glucose"          -> Rat(142169, 1000)
       [] c = "ABPm"             -> Rat(82117, 1000)
       [] c = "Magnesium"        -> Rat(2004, 1000)
       [] c = "Potassium"        -> Rat(4153, 1000)
       [] c = "ABPd"             -> Rat(64015, 1000)
       [] c = "Calcium"          -> Rat(7161, 1000)
       [] c = "Alkalinephos"     -> Rat(97796, 1000)
       [] c = "SpO2"             -> Rat(97663, 1000)
       [] c = "Bilirubin_direct" -> Rat(1391, 1000)
       [] c = "Chloride"         -> Rat(106260, 1000)
       [] c = "Hct"              -> Rat(31283, 1000)
       [] c = "Heartrate"        -> Rat(84522, 1000)
       [] c = "Bilirubin_total"  -> Rat(1641, 1000)
       [] c = "TroponinI"        -> Rat(7269, 1000)
       [] c = "ABPs"             -> Rat(122370, 1000)
       [] c = "pH"               -> Rat(7367, 1000)]

\* the literal 8 of the two missing-count tests
TrendMissingLimit == 8

\* ------------------------------------------------------- pandas helpers
Range(s) == {s[k] : k \in DOMAIN s}

InSeq(x, s) == \E k \in DOMAIN s : s[k] = x

\* variant of NotIn that filters nothing out
NotIn_Keep(s, t) == s

\* [x for x in s if x not in t]
NotIn(s, t) == SelectSeq(s, LAMBDA x : ~InSeq(x, t))

\* variant of Unique that merges only adjacent repeats
Unique_Adjacent(s) ==
  LET kept == SelectSeq([k \in DOMAIN s |-> k], LAMBDA k : k = 1 \/ s[k - 1] # s[k])
  IN  [j \in DOMAIN kept |-> s[kept[j]]]

\* Series.unique(): the distinct values in order of first appearance
Unique(s) ==
  LET firsts == SelectSeq([k \in DOMAIN s |-> k],
                          LAMBDA k : \A j \in 1..(k - 1) : s[j] # s[k])
  IN  [j \in DOMAIN firsts |-> s[firsts[j]]]

\* df[column]: the cells of one column, in row order
Column(df, column) == [k \in DOMAIN df |-> df[k][column]]

\* df.loc[df["pid"] == patient]
PatientRowsOf(df, patient) == SelectSeq(df, LAMBDA row : row["pid"] = patient)

\* df.loc[df["pid"] == patient][column]
PatientSeries(df, patient, column) == Column(PatientRowsOf(df, patient), column)

\* Series.isna().sum()
NaCount(series) == Cardinality({k \in DOMAIN series : IsNa(series[k])})

\* Series.dropna()
DropNa(series) == SelectSeq(series, LAMBDA c : ~IsNa(c))

\* Series.ffill(): a missing cell takes the last observed value before it
FFill(series) ==
  LET f[k \in 0..Len(series)] ==
        IF k = 0 THEN NaN
        ELSE IF IsNa(series[k]) THEN f[k - 1] ELSE series[k]
  IN  [k \in DOMAIN series |-> f[k]]

\* Series.bfill(): a missing cell takes the first observed value after it
BFill(series) ==
  LET n == Len(series)
      f[k \in 1..(n + 1)] ==
        IF k = n + 1 THEN NaN
        ELSE IF IsNa(series[k]) THEN f[k + 1] ELSE series[k]
  IN  [k \in DOMAIN series |-> f[k]]

\* variant of Median that takes the mean
Median_Mean(series) ==
  LET v == DropNa(series)
  IN  IF v = <<>> THEN NaN ELSE RDiv(RSum(v), Num(Len(v)))

\* Series.median(): NaN skipped; NaN when nothing is left
Median(series) ==
  LET v == SortSeq(DropNa(series), RLess)
      n == Len(v)
  IN  IF n = 0 THEN NaN
      ELSE IF n % 2 = 1 THEN v[(n + 1) \div 2]
      ELSE RDiv(RAdd(v[n \div 2], v[n \div 2 + 1]), Num(2))

\* Series.quantile(0.25) of integer counts, linear interpolation
Quantile25(counts) ==
  LET v == SortSeq(counts, LAMBDA a, b : a < b)
      n == Len(v)
      lo == (n - 1) \div 4
      rem == (n - 1) % 4
  IN  IF rem = 0 THEN Num(v[lo + 1])
      ELSE Rat(4 * v[lo + 1] + rem * (v[lo + 2] - v[lo + 1]), 4)

\* LinearRegression().fit(X, y).coef_ for one regressor: the data are
\* centred and the least-squares problem solved by lstsq, whose answer
\* when the centred X is all zero (a single sample) is the minimum-norm
\* solution 0
LinearRegression_coef(X, y) ==
  LET k == Len(y)
      xbar == RDiv(RSum(X), Num(k))
      ybar == RDiv(RSum(y), Num(k))
      sxy == RSum([j \in 1..k |-> RMul(RSub(X[j], xbar), RSub(y[j], ybar))])
      sxx == RSum([j \in 1..k |-> RMul(RSub(X[j], xbar), RSub(X[j], xbar))])
  IN  IF sxx = Num(0) THEN Num(0) ELSE RDiv(sxy, sxx)

\* ------------------------------------------------------------- the state
VARIABLES
  df_train,                  \* the observation table: a sequence of rows
  df_columns,                \* df_train.columns
  pc,                        \* position in missing_data_imputer
  i,                         \* index into pid of the running patient loop
  pid,                       \* df_train["pid"].unique()
  df_na,                     \* per patient (in pid order) the missing count of every column
  column_quantiles,          \* column -> 25th percentile of its missing counts
  columns_for_regression,    \* the trend-eligible columns
  columns_for_averaging,     \* the average-only columns
  out_columns,               \* df_train_preprocessed.columns
  df_train_preprocessed,     \* index value (a pid) -> row of the summary table
  result,                    \* the returned table: a sequence of rows
  err                        \* the exception that ended the call, or "none"

vars == <<df_train, df_columns, pc, i, pid, df_na, column_quantiles,
          columns_for_regression, columns_for_averaging, out_columns,
          df_train_preprocessed, result, err>>

\* the state of data_preprocessing.main around the call of the imputer
VARIABLES
  df_train_label,               \* the label table: a sequence of rows
  df_train_label_preprocessed   \* the exported label table: a sequence of rows

vars_main == <<df_train_label, df_train_label_preprocessed>>

\* the state of subtasks_ANN.main and get_predictions
VARIABLES
  df_test,       \* the preprocessed test table: a sequence of rows
  subtask,       \* the subtask get_predictions is called for
  test_pids,     \* np.unique(df_test["pid"].values)
  X_test,        \* df_test.drop(columns=IDENTIFIERS).values: the feature of every row
  i_pred,        \* the index i of the loop over the tests
  df_pred,       \* the prediction table: index value (a pid) -> row
  predictions,   \* the returned table df_pred: a sequence of rows
  pc_pred        \* position in main and get_predictions

vars_pred == <<df_test, subtask, test_pids, X_test, i_pred, df_pred, predictions,
               pc_pred>>

\* the state of project_4.image_generator and of the caller that draws
\* batches from it
VARIABLES
  df_to_load,      \* the triplet frame: the index labels of its rows
  frame_size,
  batch_images,    \* the index labels of the sampled batch
  train_triplets,  \* df_to_load.drop(batch_images.index)
  sample_42,       \* the positions that sample(n, random_state=42) draws from this frame
  served,          \* the index labels of the batches the caller got before this one
  pc_gen           \* position in image_generator

vars_gen == <<df_to_load, frame_size, batch_images, train_triplets, sample_42,
              served, pc_gen>>

\* main has not loaded a label table
Idle_main == df_train_label = <<>> /\ df_train_label_preprocessed = <<>>

\* no test table is loaded
Idle_pred ==
  /\ df_test = <<>>
  /\ subtask = 0
  /\ test_pids = <<>>
  /\ X_test = <<>>
  /\ i_pred = 0
  /\ df_pred = <<>>
  /\ predictions = <<>>
  /\ pc_pred = "idle"

\* no generator is created
Idle_gen ==
  /\ df_to_load = {}
  /\ frame_size = 0
  /\ batch_images = {}
  /\ train_triplets = {}
  /\ sample_42 = {}
  /\ served = {}
  /\ pc_gen = "idle"

\* ------------------------------------------------- observation tables
\* the feature column of the enumerated tables besides Age
Feature == "Lactate"

InputColumns == <<"pid", "Time", "Age", Feature>>

\* Time grows with the row of the patient, in unequal steps
TimeOf(k) == k * k

\* an enumerated cell is missing or holds the low or the high value
Alphabet == {NaN, Num(1), Num(MaxVal)}

\* a series is a body followed by a run of missing cells; the run makes a
\* patient's missing count fall on the limit or on either side of it
Pads == {0, TrendMissingLimit}

Padded(body, pad) == body \o [k \in 1..pad |-> NaN]

\* the series of the first patient: MaxBody free cells, padded or not
RichSeries == {Padded(b, d) : b \in [1..MaxBody -> Alphabet], d \in Pads}

\* the series of the other patients: one row, observed or missing, alone
\* or before a run of missing rows
CoarseSeries ==
  <<<<Num(MaxVal)>>, <<NaN>>, Padded(<<Num(MaxVal)>>, TrendMissingLimit),
    Padded(<<NaN>>, TrendMissingLimit)>>

\* the other patients draw from the same series, so one order of their
\* choices stands for all of them
CoarseChoices ==
  {f \in [2..NumPatients -> DOMAIN CoarseSeries] :
     \A p \in 2..(NumPatients - 1) : f[p] <= f[p + 1]}

\* the series of the documented trend example, [1, NaN, 3, 4]
ExampleSeries == {<<Num(1), NaN, Num(3), Num(4)>>}

\* the rows of patient p: the series in column focus, a constant in the
\* other feature column
PatientRows(p, series, focus) ==
  [k \in 1..Len(series) |->
     [c \in Range(InputColumns) |->
        IF c = "pid" THEN Num(p)
        ELSE IF c = "Time" THEN Num(TimeOf(k))
        ELSE IF c = focus THEN series[k]
        ELSE Num(1)]]

RECURSIVE Blocks(_, _)
\* the patients' rows block after block, last patient first
Blocks(rows, p) == IF p = 0 THEN <<>> ELSE rows[p] \o Blocks(rows, p - 1)

RECURSIVE RoundRobin(_, _, _)
\* the patients' rows interleaved: row k of every patient, then row k + 1
RoundRobin(rows, k, p) ==
  IF \A q \in DOMAIN rows : Len(rows[q]) < k THEN <<>>
  ELSE IF p > Len(rows) THEN RoundRobin(rows, k + 1, 1)
  ELSE (IF k <= Len(rows[p]) THEN <<rows[p][k]>> ELSE <<>>)
       \o RoundRobin(rows, k, p + 1)

Layout(rows, layout) ==
  IF layout = "blocks" THEN Blocks(rows, Len(rows)) ELSE RoundRobin(rows, 1, 1)

\* a series with a leading gap, a gap of two cells between two observed
\* values and a trailing gap
GapSeries == {<<NaN, Num(1), NaN, NaN, Num(MaxVal), NaN>>}

\* the end-to-end scenario of the specification: P1 has X = [1, 2, NaN, 4]
\* and no Y, P2 has no X and Y = [5, 5, 5, 5]; X is the feature column and
\* Y is Age, the column the classifier keeps for averaging
ScenarioRows(p, x, y) ==
  [k \in 1..Len(x) |->
     [c \in Range(InputColumns) |->
        IF c = "pid" THEN Num(p)
        ELSE IF c = "Time" THEN Num(TimeOf(k))
        ELSE IF c = Feature THEN x[k]
        ELSE y[k]]]

ScenarioTable ==
  ScenarioRows(1, <<Num(1), Num(2), NaN, Num(4)>>, <<NaN, NaN, NaN, NaN>>)
  \o ScenarioRows(2, <<NaN, NaN, NaN, NaN>>, <<Num(5), Num(5), Num(5), Num(5)>>)

\* a feature column whose name is not a key of TYPICAL_VALUES
Unlisted == "Unlisted"

UnlistedColumns == <<"pid", "Time", "Age", Unlisted>>

\* the rows of patient p in a table with the unlisted feature: the series
\* in that column, Age constant
UnlistedRows(p, series) ==
  [k \in 1..Len(series) |->
     [c \in Range(UnlistedColumns) |->
        IF c = "pid" THEN Num(p)
        ELSE IF c = "Time" THEN Num(TimeOf(k))
        ELSE IF c = Unlisted THEN series[k]
        ELSE Num(1)]]

Init ==
  /\ \/ /\ \E focus \in {"Age", Feature}, layout \in {"blocks", "roundrobin"},
               first \in RichSeries \cup ExampleSeries \cup GapSeries,
               rest \in CoarseChoices :
              df_train = Layout([p \in 1..NumPatients |->
                                   PatientRows(p, IF p = 1 THEN first
                                                  ELSE CoarseSeries[rest[p]],
                                               focus)],
                                layout)
        /\ df_columns = InputColumns
     \/ /\ df_train = ScenarioTable
        /\ df_columns = InputColumns
     \/ /\ \E layout \in {"blocks", "roundrobin"}, first \in DOMAIN CoarseSeries,
               rest \in CoarseChoices :
              df_train = Layout([p \in 1..NumPatients |->
                                   UnlistedRows(p, CoarseSeries[IF p = 1 THEN first
                                                                ELSE rest[p]])],
                                layout)
        /\ df_columns = UnlistedColumns
  /\ Idle_main
  /\ Idle_pred
  /\ Idle_gen
  /\ pc = "start"
  /\ i = 0
  /\ pid = <<>>
  /\ df_na = <<>>
  /\ column_quantiles = <<>>
  /\ columns_for_regression = <<>>
  /\ columns_for_averaging = {}
  /\ out_columns = <<>>
  /\ df_train_preprocessed = <<>>
  /\ result = <<>>
  /\ err = "none"

\* ------------------------------------------------ missing_data_imputer
\* [sub + "_trend" for sub in columns_for_regression]
columns_for_regression_formatted ==
  [k \in DOMAIN columns_for_regression |-> columns_for_regression[k] \o "_trend"]

Raise(exception) ==
  /\ pc' = "error"
  /\ err' = exception
  /\ UNCHANGED <<df_train, df_columns, i, pid, df_na, column_quantiles,
                 columns_for_regression, columns_for_averaging, out_columns,
                 df_train_preprocessed, result>>

\* lines 225-232: the distinct pids, the empty summary table and the
\* per-patient missing counts
CountMissing ==
  /\ pc = "start"
  /\ pid' = Unique(Column(df_train, "pid"))
  /\ out_columns' = NotIn(df_columns, IDENTIFIERS)
  /\ df_train_preprocessed' =
       [p \in Range(pid') |-> [c \in Range(out_columns') |-> NaN]]
  /\ df_na' = [j \in DOMAIN pid' |->
                 LET rows == PatientRowsOf(df_train, pid'[j])
                 IN  [c \in Range(df_columns) |-> NaCount(Column(rows, c))]]
  /\ pc' = "classify"
  /\ UNCHANGED <<df_train, df_columns, i, column_quantiles, columns_for_regression,
                 columns_for_averaging, result, err>>

\* variant of Eligible that leaves out the columns the previous call found
\* trend-eligible
Eligible_Stale(quantiles, columns) ==
  SelectSeq(columns, LAMBDA c : /\ RLeq(quantiles[c], Num(TrendMissingLimit))
                                /\ ~InSeq(c, columns_for_regression))

\* variant of Eligible without the threshold
Eligible_All(quantiles, columns) == columns

\* variant of Eligible with a strict comparison
Eligible_Strict(quantiles, columns) ==
  SelectSeq(columns, LAMBDA c : RLess(quantiles[c], Num(TrendMissingLimit)))

\* [k for k, v in column_quantiles.items() if float(v) <= 8]
Eligible(quantiles, columns) ==
  SelectSeq(columns, LAMBDA c : RLeq(quantiles[c], Num(TrendMissingLimit)))

\* lines 234-253: the quantiles, the two column lists and the trend columns
\* of the summary table; list.remove raises ValueError when Age is not in
\* the list
Classify ==
  /\ pc = "classify"
  /\ LET columns == NotIn(df_columns, IDENTIFIERS)
         quantiles == [c \in Range(columns) |-> Quantile25(Column(df_na, c))]
         eligible == Eligible(quantiles, columns)
         regression == SelectSeq(eligible, LAMBDA c : c # "Age")
         formatted == [k \in DOMAIN regression |-> regression[k] \o "_trend"]
     IN  IF ~InSeq("Age", eligible)
         THEN Raise("ValueError: list.remove(x): x not in list")
         ELSE /\ column_quantiles' = quantiles
              /\ columns_for_regression' = regression
              /\ columns_for_averaging' =
                   (Range(df_columns) \ Range(regression)) \ Range(IDENTIFIERS)
              /\ out_columns' = out_columns \o formatted
              /\ df_train_preprocessed' =
                   [p \in DOMAIN df_train_preprocessed |->
                      [c \in Range(out_columns) \cup Range(formatted) |->
                         IF InSeq(c, out_columns) THEN df_train_preprocessed[p][c]
                         ELSE NaN]]
              /\ pc' = "trend"
              /\ i' = 1
              /\ UNCHANGED <<df_train, df_columns, pid, df_na, result, err>>

\* line 259: the per-patient test that guards the fit
FitsTrend(patient, column) ==
  NaCount(PatientSeries(df_train, patient, column)) <= TrendMissingLimit

\* variant of FillBetween that fills forward only
FillBetween_Forward(series) == DropNa(FFill(series))

\* lines 260-264: (series.ffill() + series.bfill()) / 2, then dropna()
FillBetween(series) ==
  LET forward == FFill(series)
      backward == BFill(series)
  IN  DropNa([k \in DOMAIN series |-> RDiv(RAdd(forward[k], backward[k]), Num(2))])

\* variant of TrendOf that fits against the Time of the rows
TrendOf_AgainstTime(patient, column) ==
  LET rows == PatientRowsOf(df_train, patient)
      series == Column(rows, column)
      forward == FFill(series)
      backward == BFill(series)
      filled == [k \in DOMAIN series |-> RDiv(RAdd(forward[k], backward[k]), Num(2))]
      kept == SelectSeq([k \in DOMAIN series |-> k], LAMBDA k : ~IsNa(filled[k]))
  IN  LinearRegression_coef([j \in DOMAIN kept |-> rows[kept[j]]["Time"]],
                            [j \in DOMAIN kept |-> filled[kept[j]]])

\* lines 260-270 for one patient and one column: the coefficient of the
\* filled series fitted against X = [0, 1, .., len(series) - 1]
TrendOf(patient, column) ==
  LET series == FillBetween(PatientSeries(df_train, patient, column))
      X == [j \in 1..Len(series) |-> Num(j - 1)]
  IN  LinearRegression_coef(X, series)

\* lines 257-270, one pass of the patient loop: every eligible column of
\* the patient is fitted; LinearRegression.fit raises ValueError on a
\* series that is empty after dropna()
TrendPatient ==
  /\ pc = "trend"
  /\ i <= Len(pid)
  /\ LET patient == pid[i]
         fitted == {c \in Range(columns_for_regression) : FitsTrend(patient, c)}
     IN  IF \E c \in fitted : FillBetween(PatientSeries(df_train, patient, c)) = <<>>
         THEN Raise("ValueError: Found array with 0 sample(s)")
         ELSE /\ df_train_preprocessed' =
                   [df_train_preprocessed EXCEPT ![patient] =
                      [c \in DOMAIN @ |->
                         IF \E x \in fitted : c = x \o "_trend"
                         THEN TrendOf(patient, CHOOSE x \in fitted : c = x \o "_trend")
                         ELSE @[c]]]
              /\ i' = i + 1
              /\ UNCHANGED <<df_train, df_columns, pc, pid, df_na, column_quantiles,
                             columns_for_regression, columns_for_averaging,
                             out_columns, result, err>>

\* variant of FillTrendZero that leaves the trend cells missing
FillTrendZero_Skip ==
  /\ pc = "trend"
  /\ i > Len(pid)
  /\ pc' = "average"
  /\ i' = 1
  /\ UNCHANGED <<df_train, df_columns, pid, df_na, column_quantiles,
                 columns_for_regression, columns_for_averaging, out_columns,
                 df_train_preprocessed, result, err>>

\* lines 273-275: the trend cells still missing become 0
FillTrendZero ==
  /\ pc = "trend"
  /\ i > Len(pid)
  /\ df_train_preprocessed' =
       [p \in DOMAIN df_train_preprocessed |->
          [c \in DOMAIN df_train_preprocessed[p] |->
             IF InSeq(c, columns_for_regression_formatted)
                /\ IsNa(df_train_preprocessed[p][c])
             THEN Num(0)
             ELSE df_train_preprocessed[p][c]]]
  /\ pc' = "average"
  /\ i' = 1
  /\ UNCHANGED <<df_train, df_columns, pid, df_na, column_quantiles,
                 columns_for_regression, columns_for_averaging, out_columns,
                 result, err>>

\* variant of AveragePatient that takes the median of the column over the
\* rows of all patients
AveragePatient_Pooled ==
  /\ pc = "average"
  /\ i <= Len(pid)
  /\ LET patient == pid[i]
     IN  df_train_preprocessed' =
           [df_train_preprocessed EXCEPT ![patient] =
              [c \in DOMAIN @ |->
                 IF c \in columns_for_averaging
                 THEN Median(Column(df_train, c))
                 ELSE @[c]]]
  /\ i' = i + 1
  /\ UNCHANGED <<df_train, df_columns, pc, pid, df_na, column_quantiles,
                 columns_for_regression, columns_for_averaging, out_columns,
                 result, err>>

\* variant of AveragePatient that also writes the median into the missing
\* cells of the patient's observation rows
AveragePatient_InPlace ==
  /\ pc = "average"
  /\ i <= Len(pid)
  /\ LET patient == pid[i]
         median == [c \in columns_for_averaging |->
                      Median(PatientSeries(df_train, patient, c))]
     IN  /\ df_train_preprocessed' =
              [df_train_preprocessed EXCEPT ![patient] =
                 [c \in DOMAIN @ |->
                    IF c \in columns_for_averaging THEN median[c] ELSE @[c]]]
         /\ df_train' =
              [k \in DOMAIN df_train |->
                 [c \in DOMAIN df_train[k] |->
                    IF /\ df_train[k]["pid"] = patient
                       /\ c \in columns_for_averaging
                       /\ IsNa(df_train[k][c])
                    THEN median[c]
                    ELSE df_train[k][c]]]
  /\ i' = i + 1
  /\ UNCHANGED <<df_columns, pc, pid, df_na, column_quantiles,
                 columns_for_regression, columns_for_averaging, out_columns,
                 result, err>>

\* lines 283-287, one pass of the patient loop: the patient's median of
\* every average-only column
AveragePatient ==
  /\ pc = "average"
  /\ i <= Len(pid)
  /\ LET patient == pid[i]
     IN  df_train_preprocessed' =
           [df_train_preprocessed EXCEPT ![patient] =
              [c \in DOMAIN @ |->
                 IF c \in columns_for_averaging
                 THEN Median(PatientSeries(df_train, patient, c))
                 ELSE @[c]]]
  /\ i' = i + 1
  /\ UNCHANGED <<df_train, df_columns, pc, pid, df_na, column_quantiles,
                 columns_for_regression, columns_for_averaging, out_columns,
                 result, err>>

\* df_train_preprocessed[column]: the cells of a summary column in index order
OutColumn(table, column) == [j \in DOMAIN pid |-> table[pid[j]][column]]

\* variant of ColumnMedian that takes the median of the observation rows
ColumnMedian_Raw(table, column) == Median(Column(df_train, column))

\* df_train_preprocessed.median()[column]
ColumnMedian(table, column) == Median(OutColumn(table, column))

\* variant of FillMedian that leaves the missing cells missing
FillMedian_Skip ==
  /\ pc = "average"
  /\ i > Len(pid)
  /\ pc' = "typical"
  /\ UNCHANGED <<df_train, df_columns, i, pid, df_na, column_quantiles,
                 columns_for_regression, columns_for_averaging, out_columns,
                 df_train_preprocessed, result, err>>

\* line 293: df.fillna(df.median()), the missing cells of a column take
\* the median of the column of the summary table
FillMedian ==
  /\ pc = "average"
  /\ i > Len(pid)
  /\ df_train_preprocessed' =
       [p \in DOMAIN df_train_preprocessed |->
          [c \in DOMAIN df_train_preprocessed[p] |->
             IF IsNa(df_train_preprocessed[p][c])
             THEN ColumnMedian(df_train_preprocessed, c)
             ELSE df_train_preprocessed[p][c]]]
  /\ pc' = "typical"
  /\ UNCHANGED <<df_train, df_columns, i, pid, df_na, column_quantiles,
                 columns_for_regression, columns_for_averaging, out_columns,
                 result, err>>

\* variant of FillTypical that leaves out the typical-value fallback
FillTypical_NoFallback ==
  /\ pc = "typical"
  /\ pc' = "reset_index"
  /\ UNCHANGED <<df_train, df_columns, i, pid, df_na, column_quantiles,
                 columns_for_regression, columns_for_averaging, out_columns,
                 df_train_preprocessed, result, err>>

\* variant of FillTypical that fills the missing cells with 0
FillTypical_Zero ==
  /\ pc = "typical"
  /\ df_train_preprocessed' =
       [p \in DOMAIN df_train_preprocessed |->
          [c \in DOMAIN df_train_preprocessed[p] |->
             IF IsNa(df_train_preprocessed[p][c]) THEN Num(0)
             ELSE df_train_preprocessed[p][c]]]
  /\ pc' = "reset_index"
  /\ UNCHANGED <<df_train, df_columns, i, pid, df_na, column_quantiles,
                 columns_for_regression, columns_for_averaging, out_columns,
                 result, err>>

\* lines 295-300: every column that still has a missing cell is assigned
\* its typical value as a whole; the lookup raises KeyError for a column
\* name that TYPICAL_VALUES does not have
FillTypical ==
  /\ pc = "typical"
  /\ LET columns_with_na ==
           SelectSeq(out_columns,
                     LAMBDA c : \E p \in DOMAIN df_train_preprocessed :
                                   IsNa(df_train_preprocessed[p][c]))
     IN  IF \E c \in Range(columns_with_na) : c \notin DOMAIN TYPICAL_VALUES
         THEN Raise("KeyError")
         ELSE /\ df_train_preprocessed' =
                   [p \in DOMAIN df_train_preprocessed |->
                      [c \in DOMAIN df_train_preprocessed[p] |->
                         IF InSeq(c, columns_with_na) THEN TYPICAL_VALUES[c]
                         ELSE df_train_preprocessed[p][c]]]
              /\ pc' = "reset_index"
              /\ UNCHANGED <<df_train, df_columns, i, pid, df_na, column_quantiles,
                             columns_for_regression, columns_for_averaging,
                             out_columns, result, err>>

\* lines 302-304: the index becomes the column "pid" and the table is returned
ResetIndex ==
  /\ pc = "reset_index"
  /\ result' = [j \in DOMAIN pid |->
                  [c \in {"pid"} \cup Range(out_columns) |->
                     IF c = "pid" THEN pid[j] ELSE df_train_preprocessed[pid[j]][c]]]
  /\ pc' = "done"
  /\ UNCHANGED <<df_train, df_columns, i, pid, df_na, column_quantiles,
                 columns_for_regression, columns_for_averaging, out_columns,
                 df_train_preprocessed, err>>

Next ==
  \/ CountMissing /\ UNCHANGED <<vars_main, vars_pred, vars_gen>>
  \/ Classify /\ UNCHANGED <<vars_main, vars_pred, vars_gen>>
  \/ TrendPatient /\ UNCHANGED <<vars_main, vars_pred, vars_gen>>
  \/ FillTrendZero /\ UNCHANGED <<vars_main, vars_pred, vars_gen>>
  \/ AveragePatient /\ UNCHANGED <<vars_main, vars_pred, vars_gen>>
  \/ FillMedian /\ UNCHANGED <<vars_main, vars_pred, vars_gen>>
  \/ FillTypical /\ UNCHANGED <<vars_main, vars_pred, vars_gen>>
  \/ ResetIndex /\ UNCHANGED <<vars_main, vars_pred, vars_gen>>

Spec == Init /\ [][Next]_vars

\* ------------------------------------------- the classifier run again
\* a second call on the same observation table after a call whose
\* classifier completed: the locals are fresh; the two column lists of the
\* first call stay in view until the second classification replaces them
Rerun ==
  /\ pc \in {"done", "error"}
  /\ columns_for_averaging # {}
  /\ pc' = "start"
  /\ i' = 0
  /\ pid' = <<>>
  /\ df_na' = <<>>
  /\ column_quantiles' = <<>>
  /\ out_columns' = <<>>
  /\ df_train_preprocessed' = <<>>
  /\ result' = <<>>
  /\ err' = "none"
  /\ UNCHANGED <<df_train, df_columns, columns_for_regression, columns_for_averaging>>

NextRerun ==
  \/ CountMissing /\ UNCHANGED <<vars_main, vars_pred, vars_gen>>
  \/ Classify /\ UNCHANGED <<vars_main, vars_pred, vars_gen>>
  \/ TrendPatient /\ UNCHANGED <<vars_main, vars_pred, vars_gen>>
  \/ FillTrendZero /\ UNCHANGED <<vars_main, vars_pred, vars_gen>>
  \/ AveragePatient /\ UNCHANGED <<vars_main, vars_pred, vars_gen>>
  \/ FillMedian /\ UNCHANGED <<vars_main, vars_pred, vars_gen>>
  \/ FillTypical /\ UNCHANGED <<vars_main, vars_pred, vars_gen>>
  \/ ResetIndex /\ UNCHANGED <<vars_main, vars_pred, vars_gen>>
  \/ Rerun /\ UNCHANGED <<vars_main, vars_pred, vars_gen>>

SpecRerun == Init /\ [][NextRerun]_vars

\* --------------------------------------------- the imputer not called
Idle_imputer ==
  /\ df_train = <<>>
  /\ df_columns = <<>>
  /\ pc = "idle"
  /\ i = 0
  /\ pid = <<>>
  /\ df_na = <<>>
  /\ column_quantiles = <<>>
  /\ columns_for_regression = <<>>
  /\ columns_for_averaging = {}
  /\ out_columns = <<>>
  /\ df_train_preprocessed = <<>>
  /\ result = <<>>
  /\ err = "none"

\* ------------------------------------------- project_4.image_generator
BATCH_SIZE == 32

\* the frames handed to the generator have up to MaxRows triplets
MaxRows == 34

RECURSIVE Combinations(_, _)
\* the subsets of S with k elements
Combinations(S, k) ==
  IF k = 0 THEN {{}}
  ELSE UNION {{T \cup {x} : T \in Combinations({y \in S : y > x}, k - 1)} : x \in S}

\* what DataFrame.sample(n, replace=False) can draw from a frame of len
\* rows: n of the positions 0..len-1, given by the positions left out
Draws(len, n) == {(0..(len - 1)) \ D : D \in Combinations(0..(len - 1), len - n)}

\* the index label of the row at position k of a frame
LabelAt(frame, k) == CHOOSE x \in frame : Cardinality({y \in frame : y < x}) = k

\* image_generator(df_to_load) is called with a frame of n triplets, whose
\* index labels are 0..n-1; random_state=42 fixes the draw from a frame of
\* a given length, and which draw it is the model leaves open
Init_gen ==
  /\ \E n \in 0..MaxRows :
       /\ df_to_load = 0..(n - 1)
       /\ sample_42 \in (IF n >= BATCH_SIZE THEN Draws(n, BATCH_SIZE) ELSE {{}})
  /\ frame_size = 0
  /\ batch_images = {}
  /\ train_triplets = {}
  /\ served = {}
  /\ pc_gen = "created"
  /\ Idle_imputer
  /\ Idle_main
  /\ Idle_pred

\* lines 73-82, run by the first next(): the images are read and
\* frame_size starts as BATCH_SIZE
Gen_Load ==
  /\ pc_gen = "created"
  /\ frame_size' = BATCH_SIZE
  /\ pc_gen' = "while"
  /\ UNCHANGED <<df_to_load, batch_images, train_triplets, sample_42, served>>
  /\ UNCHANGED <<vars, vars_main, vars_pred>>

\* lines 84-108, one pass of the loop up to the yield: frame_size is
\* clamped, sample(n=BATCH_SIZE, replace=False) raises ValueError when the
\* frame has fewer than BATCH_SIZE rows, and the rows left after the drop
\* go to train_triplets
Gen_Batch ==
  /\ pc_gen = "while"
  /\ df_to_load # {}
  /\ frame_size' = IF frame_size > Cardinality(df_to_load)
                   THEN Cardinality(df_to_load) ELSE frame_size
  /\ IF BATCH_SIZE > Cardinality(df_to_load)
     THEN /\ pc_gen' = "error"
          /\ UNCHANGED <<batch_images, train_triplets>>
     ELSE /\ batch_images' = {LabelAt(df_to_load, k) : k \in sample_42}
          /\ train_triplets' = df_to_load \ batch_images'
          /\ pc_gen' = "yield"
  /\ UNCHANGED <<df_to_load, sample_42, served>>
  /\ UNCHANGED <<vars, vars_main, vars_pred>>

\* the caller has the batch and calls next() again: the generator goes on
\* after the yield, back to the loop test
Gen_Resume ==
  /\ pc_gen = "yield"
  /\ served' = served \cup batch_images
  /\ pc_gen' = "while"
  /\ UNCHANGED <<df_to_load, frame_size, batch_images, train_triplets, sample_42>>
  /\ UNCHANGED <<vars, vars_main, vars_pred>>

\* line 84: the loop test fails on an empty frame and the generator ends
Gen_Exhausted ==
  /\ pc_gen = "while"
  /\ df_to_load = {}
  /\ pc_gen' = "exhausted"
  /\ UNCHANGED <<df_to_load, frame_size, batch_images, train_triplets, sample_42,
                 served>>
  /\ UNCHANGED <<vars, vars_main, vars_pred>>

Next_gen ==
  \/ Gen_Load
  \/ Gen_Batch
  \/ Gen_Resume
  \/ Gen_Exhausted

\* the caller draws batches until the generator ends
Spec_gen == Init_gen /\ [][Next_gen]_vars_gen /\ WF_vars_gen(Next_gen)

\* -------------------------------- subtasks_ANN.main and get_predictions
\* the test table has up to MaxPid patients
MaxPid == 3

\* the feature of a row is one of 1..MaxFeature
MaxFeature == 2

SEPSIS == <<"LABEL_Sepsis">>

VITAL_SIGNS == <<"LABEL_RRate", "LABEL_ABPm", "LABEL_SpO2", "LABEL_Heartrate">>

\* MEDICAL_TESTS if subtask == 1 else (SEPSIS if subtask == 2 else
\* VITAL_SIGNS); the ten medical tests go the way of the four vital signs
\* and are left out
topred == IF subtask = 2 THEN SEPSIS ELSE VITAL_SIGNS

\* models[i] applied to the features of one row: the networks are fixed
\* functions of the row, different for different tests and different rows
Model(t, x) == MaxFeature * t + x

\* np.unique: the distinct values in ascending order
np_unique(s) ==
  LET values == Range(s)
  IN  [j \in 1..Cardinality(values) |->
         CHOOSE v \in values : Cardinality({w \in values : w < v}) = j - 1]

\* the sequences of distinct pids
PidLists ==
  UNION {{f \in [1..n -> 1..MaxPid] : \A j, k \in 1..n : j # k => f[j] # f[k]} :
           n \in 1..MaxPid}

\* the preprocessed test table: one row per patient, the pids in any order
Init_pred ==
  /\ \E pids \in PidLists : \E x \in [DOMAIN pids -> 1..MaxFeature] :
       df_test = [k \in DOMAIN pids |-> [pid |-> pids[k], feature |-> x[k]]]
  /\ subtask \in {2, 3}
  /\ test_pids = <<>>
  /\ X_test = <<>>
  /\ i_pred = 0
  /\ df_pred = <<>>
  /\ predictions = <<>>
  /\ pc_pred = "main"
  /\ Idle_imputer
  /\ Idle_main
  /\ Idle_gen

\* main, lines 442-444: the sorted distinct pids and the features in row order
Pred_Main ==
  /\ pc_pred = "main"
  /\ test_pids' = np_unique([k \in DOMAIN df_test |-> df_test[k].pid])
  /\ X_test' = [k \in DOMAIN df_test |-> df_test[k].feature]
  /\ pc_pred' = "get_predictions"
  /\ UNCHANGED <<df_test, subtask, i_pred, df_pred, predictions>>
  /\ UNCHANGED <<vars, vars_main, vars_gen>>

\* get_predictions, lines 387-391: the table with the index test_pids and
\* no column
Pred_Start ==
  /\ pc_pred = "get_predictions"
  /\ df_pred' = [p \in Range(test_pids) |-> <<>>]
  /\ i_pred' = 1
  /\ pc_pred' = "loop"
  /\ UNCHANGED <<df_test, subtask, test_pids, X_test, predictions>>
  /\ UNCHANGED <<vars, vars_main, vars_gen>>

\* lines 392-401, one pass of the loop: the predictions of the rows of
\* X_test in row order are given the index test_pids (pd.DataFrame raises
\* ValueError when the lengths differ) and joined to df_pred on the index
Pred_Test ==
  /\ pc_pred = "loop"
  /\ i_pred <= Len(topred)
  /\ LET y_pred == [k \in DOMAIN X_test |-> Model(i_pred, X_test[k])]
         df == [p \in Range(test_pids) |->
                  y_pred[CHOOSE j \in DOMAIN test_pids : test_pids[j] = p]]
     IN  IF Len(y_pred) # Len(test_pids)
         THEN /\ pc_pred' = "error"
              /\ UNCHANGED <<df_pred, i_pred>>
         ELSE /\ df_pred' = [p \in DOMAIN df_pred \cap DOMAIN df |->
                               (topred[i_pred] :> df[p]) @@ df_pred[p]]
              /\ i_pred' = i_pred + 1
              /\ pc_pred' = "loop"
  /\ UNCHANGED <<df_test, subtask, test_pids, X_test, predictions>>
  /\ UNCHANGED <<vars, vars_main, vars_gen>>

\* line 402-403: the index becomes the column pid and the table is returned
Pred_Return ==
  /\ pc_pred = "loop"
  /\ i_pred > Len(topred)
  /\ predictions' = [j \in DOMAIN test_pids |->
                       ("pid" :> test_pids[j]) @@ df_pred[test_pids[j]]]
  /\ pc_pred' = "done"
  /\ UNCHANGED <<df_test, subtask, test_pids, X_test, i_pred, df_pred>>
  /\ UNCHANGED <<vars, vars_main, vars_gen>>

Next_pred ==
  \/ Pred_Main
  \/ Pred_Start
  \/ Pred_Test
  \/ Pred_Return

Spec_pred == Init_pred /\ [][Next_pred]_vars_pred

\* ------------------------------------------- data_preprocessing.main
\* the label column carried through the merge; the other label columns of
\* MEDICAL_TESTS + VITAL_SIGNS + SEPSIS go the same way
LabelColumn == "LABEL_Sepsis"

\* a label table has up to MaxLabelRows rows
MaxLabelRows == 3

\* the label tables: any pids of the patients in any order, absent or
\* repeated; the label of a row is the number of the row
LabelTables ==
  UNION {{[k \in 1..n |-> [c \in {"pid", LabelColumn} |->
                             IF c = "pid" THEN Num(f[k]) ELSE Num(k)]] :
            f \in [1..n -> 1..NumPatients]} : n \in 1..MaxLabelRows}

\* pd.merge(left, right, how="left", left_on="pid", right_on="pid") for one
\* left row: the row joined with every right row of its pid, in the order
\* of the right table, or with missing labels when there is none
MergeRow(row, right) ==
  LET matches == SelectSeq(right, LAMBDA r : r["pid"] = row["pid"])
  IN  IF matches = <<>> THEN <<[c \in DOMAIN row \cup {LabelColumn} |->
                                  IF c \in DOMAIN row THEN row[c] ELSE NaN]>>
      ELSE [k \in DOMAIN matches |->
              [c \in DOMAIN row \cup {LabelColumn} |->
                 IF c \in DOMAIN row THEN row[c] ELSE matches[k][c]]]

RECURSIVE MergeLeft(_, _)
\* the left merge: the rows of the left table in their order
MergeLeft(left, right) ==
  IF left = <<>> THEN <<>>
  ELSE MergeRow(Head(left), right) \o MergeLeft(Tail(left), right)

\* main loads an observation table with the documented series for the
\* first patient, and a label table (line 318)
Init_main ==
  /\ \E layout \in {"blocks", "roundrobin"}, first \in ExampleSeries,
        rest \in CoarseChoices :
       df_train = Layout([p \in 1..NumPatients |->
                            PatientRows(p, IF p = 1 THEN first
                                           ELSE CoarseSeries[rest[p]],
                                        Feature)],
                         layout)
  /\ df_columns = InputColumns
  /\ df_train_label \in LabelTables
  /\ df_train_label_preprocessed = <<>>
  /\ Idle_pred
  /\ Idle_gen
  /\ pc = "start"
  /\ i = 0
  /\ pid = <<>>
  /\ df_na = <<>>
  /\ column_quantiles = <<>>
  /\ columns_for_regression = <<>>
  /\ columns_for_averaging = {}
  /\ out_columns = <<>>
  /\ df_train_preprocessed = <<>>
  /\ result = <<>>
  /\ err = "none"

\* lines 337-344: the returned summary table is merged with the label table
\* and the pid and label columns of the merge are the label table to export
Main_Merge ==
  /\ pc = "done"
  /\ df_train_label_preprocessed' =
       LET merged == MergeLeft(result, df_train_label)
       IN  [k \in DOMAIN merged |-> [c \in {"pid", LabelColumn} |-> merged[k][c]]]
  /\ pc' = "merged"
  /\ UNCHANGED <<df_train, df_columns, i, pid, df_na, column_quantiles,
                 columns_for_regression, columns_for_averaging, out_columns,
                 df_train_preprocessed, result, err>>
  /\ UNCHANGED <<df_train_label, vars_pred, vars_gen>>

\* lines 328-344: the imputer called by main, then the merge
Next_main ==
  \/ CountMissing /\ UNCHANGED <<vars_main, vars_pred, vars_gen>>
  \/ Classify /\ UNCHANGED <<vars_main, vars_pred, vars_gen>>
  \/ TrendPatient /\ UNCHANGED <<vars_main, vars_pred, vars_gen>>
  \/ FillTrendZero /\ UNCHANGED <<vars_main, vars_pred, vars_gen>>
  \/ AveragePatient /\ UNCHANGED <<vars_main, vars_pred, vars_gen>>
  \/ FillMedian /\ UNCHANGED <<vars_main, vars_pred, vars_gen>>
  \/ FillTypical /\ UNCHANGED <<vars_main, vars_pred, vars_gen>>
  \/ ResetIndex /\ UNCHANGED <<vars_main, vars_pred, vars_gen>>
  \/ Main_Merge

Spec_main == Init_main /\ [][Next_main]_<<vars, vars_main>>

\* ===================================================== properties
\* the distinct pids of the observation table
InputPids == {df_train[k]["pid"] : k \in DOMAIN df_train}

\* the rows of patient p that hold an observed value in column c
ObsRows(p, c) ==
  {k \in DOMAIN df_train : df_train[k]["pid"] = p /\ ~IsNa(df_train[k][c])}

\* the number of rows of patient p that miss column c
MissingCount(p, c) ==
  Cardinality({k \in DOMAIN df_train : df_train[k]["pid"] = p /\ IsNa(df_train[k][c])})

\* the row of patient p in the returned table
ResultRow(p) == CHOOSE row \in Range(result) : row["pid"] = p

\* C1: the returned table has no missing cell: every cell of every column
\* of every returned row holds a value
C1_NoMissingCell ==
  pc = "done" =>
    \A j \in DOMAIN result : \A c \in DOMAIN result[j] : ~IsNa(result[j][c])

\* a returned table for an input where one patient has no observation of an
\* average-only column that another patient has, and a column was assigned
\* its typical value
C1_Witness ==
  /\ pc = "done"
  /\ \E c \in columns_for_averaging : \E p, q \in InputPids :
       ObsRows(p, c) = {} /\ ObsRows(q, c) # {}
  /\ \E c \in Range(out_columns) \cap DOMAIN TYPICAL_VALUES :
       \A j \in DOMAIN result : result[j][c] = TYPICAL_VALUES[c]

\* C2: the returned table has exactly one row per distinct pid of the
\* input, and the pid is a column of the row
C2_OneRowPerPid ==
  pc = "done" =>
    /\ \A j \in DOMAIN result :
         "pid" \in DOMAIN result[j] /\ result[j]["pid"] \in InputPids
    /\ \A p \in InputPids :
         Cardinality({j \in DOMAIN result : result[j]["pid"] = p}) = 1

\* a returned table for an input in which the rows of a patient are not
\* adjacent
C2_Witness ==
  /\ pc = "done"
  /\ \E k, l, m \in DOMAIN df_train :
       /\ k < l /\ l < m
       /\ df_train[k]["pid"] = df_train[m]["pid"]
       /\ df_train[k]["pid"] # df_train[l]["pid"]

\* the classifier has just run to its end: the column lists it leaves are
\* not assigned again
Classified == pc = "trend" /\ i = 1

\* the feature columns of the observation table
FeatureColumns == Range(df_columns) \ {"pid", "Time"}

\* C3: the columns of the returned table are exactly pid, X_trend for every
\* trend-eligible X and A for every average-only A
C3_ColumnsExact ==
  pc = "done" =>
    \A j \in DOMAIN result :
      DOMAIN result[j] =
        {"pid"} \cup {x \o "_trend" : x \in Range(columns_for_regression)}
                \cup columns_for_averaging

\* four times the 25th percentile (linear interpolation between order
\* statistics) of the per-patient missing counts of column c; the order
\* statistic of rank r is the count with at most r counts below it and
\* more than r counts not above it
Percentile25x4(c) ==
  LET pids == InputPids
      count == [p \in pids |-> MissingCount(p, c)]
      n == Cardinality(pids)
      Stat(r) == CHOOSE v \in {count[p] : p \in pids} :
                   /\ Cardinality({p \in pids : count[p] < v}) <= r
                   /\ Cardinality({p \in pids : count[p] <= v}) > r
      lo == (n - 1) \div 4
      rem == (n - 1) % 4
  IN  IF rem = 0 THEN 4 * Stat(lo)
      ELSE 4 * Stat(lo) + rem * (Stat(lo + 1) - Stat(lo))

\* C4: a feature column other than Age is trend-eligible iff the 25th
\* percentile of its per-patient missing counts is <= 8, and average-only
\* iff it is > 8
C4_EligibleIffPercentileLeq8 ==
  Classified =>
    \A c \in FeatureColumns \ {"Age"} :
      LET percentile == Percentile25x4(c)
      IN  /\ InSeq(c, columns_for_regression) <=> percentile <= 4 * 8
          /\ c \in columns_for_averaging <=> percentile > 4 * 8

\* a classified table whose feature percentile is exactly 8: trend-eligible
C4_Witness ==
  /\ Classified
  /\ InSeq(Feature, columns_for_regression)
  /\ Percentile25x4(Feature) = 4 * 8

\* C5: the classifier completes for every table and puts Age among the
\* average-only columns, never among the trend columns
C5_AgeAlwaysAverage ==
  pc \notin {"start", "classify"} =>
    "Age" \in columns_for_averaging /\ ~InSeq("Age", columns_for_regression)

\* the cells of patient p in column c, in row order
PatientCells(p, c) ==
  LET rows == {k \in DOMAIN df_train : df_train[k]["pid"] = p}
  IN  [j \in 1..Cardinality(rows) |->
         df_train[CHOOSE k \in rows : Cardinality({m \in rows : m < k}) = j - 1][c]]

\* fill-between as the specification words it: the cells from the first to
\* the last observed one, a missing cell among them replaced by the average
\* of the last observed value before it and the first observed value after it
SpecFillBetween(series) ==
  LET obs == {k \in DOMAIN series : ~IsNa(series[k])}
      first == CHOOSE k \in obs : \A m \in obs : k <= m
      last == CHOOSE k \in obs : \A m \in obs : m <= k
      before(t) == CHOOSE k \in obs : k < t /\ \A m \in obs : m < t => m <= k
      after(t) == CHOOSE k \in obs : k > t /\ \A m \in obs : m > t => k <= m
  IN  IF obs = {} THEN <<>>
      ELSE [j \in 1..(last - first + 1) |->
              LET t == first + j - 1
              IN  IF t \in obs THEN series[t]
                  ELSE RDiv(RAdd(series[before(t)], series[after(t)]), Num(2))]

\* b is the least-squares slope of y against 0..k-1: with the intercept a
\* that makes the residuals sum to zero, the residuals are orthogonal to
\* the index (the normal equations); for a single point the slope is 0
IsOlsSlope(y, b) ==
  LET k == Len(y)
      xs == [j \in 1..k |-> Num(j - 1)]
      a == RSub(RDiv(RSum(y), Num(k)), RMul(b, RDiv(RSum(xs), Num(k))))
      res == [j \in 1..k |-> RSub(y[j], RAdd(a, RMul(b, xs[j])))]
  IN  /\ k >= 1
      /\ k = 1 => b = Num(0)
      /\ RSum(res) = Num(0)
      /\ RSum([j \in 1..k |-> RMul(xs[j], res[j])]) = Num(0)

\* C6: for a patient with at most 8 missing values in a trend-eligible
\* column X, X_trend is the least-squares slope of the patient's
\* fill-between series against the index 0..k-1
C6_TrendIsOlsSlope ==
  pc = "done" =>
    \A p \in InputPids : \A x \in Range(columns_for_regression) :
      MissingCount(p, x) <= 8 =>
        IsOlsSlope(SpecFillBetween(PatientCells(p, x)), ResultRow(p)[x \o "_trend"])

\* the documented example: the series [1, NaN, 3, 4] has the trend 1
C6_Witness ==
  /\ pc = "done"
  /\ InSeq(Feature, columns_for_regression)
  /\ PatientCells(Num(1), Feature) = <<Num(1), NaN, Num(3), Num(4)>>
  /\ ResultRow(Num(1))[Feature \o "_trend"] = Num(1)

\* C7: a patient without any observed value in a trend-eligible column X
\* gets X_trend = 0 and the call does not fail
C7_NoValueGivesZero ==
  \A p \in InputPids : \A x \in Range(columns_for_regression) :
    ObsRows(p, x) = {} =>
      /\ pc # "error"
      /\ pc = "done" => ResultRow(p)[x \o "_trend"] = Num(0)

\* the median of the values of a non-empty function by ranks: the mean of
\* the values of rank (n-1) div 2 and n div 2, where a value has rank r when
\* at most r values are below it and more than r values are not above it
SpecMedian(vals) ==
  LET n == Cardinality(DOMAIN vals)
      Ranked(r) == CHOOSE k \in DOMAIN vals :
                     /\ Cardinality({m \in DOMAIN vals : RLess(vals[m], vals[k])}) <= r
                     /\ Cardinality({m \in DOMAIN vals : RLeq(vals[m], vals[k])}) > r
  IN  RDiv(RAdd(vals[Ranked((n - 1) \div 2)], vals[Ranked(n \div 2)]), Num(2))

\* the median of the observed values of patient p in column c
OwnMedian(p, c) == SpecMedian([k \in ObsRows(p, c) |-> df_train[k][c]])

\* C8: in an average-only column a patient with an observed value gets the
\* median of the patient's own observed values
C8_OwnMedian ==
  pc = "done" =>
    \A p \in InputPids : \A c \in columns_for_averaging :
      ObsRows(p, c) # {} => ResultRow(p)[c] = OwnMedian(p, c)

\* a returned table where a patient has three or more observed values, not
\* all equal, in an average-only column, and another patient a different cell
C8_Witness ==
  /\ pc = "done"
  /\ \E p, q \in InputPids : \E c \in columns_for_averaging :
       /\ Cardinality(ObsRows(p, c)) >= 3
       /\ \E k, m \in ObsRows(p, c) : df_train[k][c] # df_train[m][c]
       /\ ResultRow(q)[c] # ResultRow(p)[c]

\* the patients with an observed value in column c
Observers(c) == {q \in InputPids : ObsRows(q, c) # {}}

\* C9: in an average-only column a patient without observation, when some
\* patient has one, gets the median of the per-patient medians
C9_MedianOfMedians ==
  pc = "done" =>
    \A p \in InputPids : \A c \in columns_for_averaging :
      (ObsRows(p, c) = {} /\ Observers(c) # {}) =>
        ResultRow(p)[c] = SpecMedian([q \in Observers(c) |-> OwnMedian(q, c)])

\* a returned table where such a patient's cell is neither the median of
\* the observation rows nor the typical value
C9_Witness ==
  /\ pc = "done"
  /\ \E p \in InputPids : \E c \in columns_for_averaging :
       /\ ObsRows(p, c) = {} /\ Observers(c) # {}
       /\ ResultRow(p)[c] #
            SpecMedian([k \in {m \in DOMAIN df_train : ~IsNa(df_train[m][c])} |->
                          df_train[k][c]])
       /\ c \in DOMAIN TYPICAL_VALUES /\ ResultRow(p)[c] # TYPICAL_VALUES[c]

\* a summary column that tiers 1 and 2 leave empty: the un-suffixed column
\* of a trend-eligible feature, or an average-only column that no patient
\* has an observation of
LeftEmpty(c) ==
  /\ InSeq(c, out_columns)
  /\ \/ InSeq(c, columns_for_regression)
     \/ c \in columns_for_averaging /\ Observers(c) = {}

\* C10: after tiers 1 and 2 the empty columns of the summary table are the
\* ones above, and in the returned table every cell of such a column is
\* TYPICAL_VALUES[column]
C10_EmptyColumnGetsTypical ==
  /\ (pc = "average" /\ i > Len(pid)) =>
       \A c \in Range(out_columns) :
         (\A p \in InputPids : IsNa(df_train_preprocessed[p][c])) <=> LeftEmpty(c)
  /\ pc = "done" =>
       \A c \in Range(out_columns) :
         LeftEmpty(c) => \A j \in DOMAIN result : result[j][c] = TYPICAL_VALUES[c]

\* a returned table with an average-only column that no patient has an
\* observation of
C10_Witness ==
  /\ pc = "done"
  /\ \E c \in columns_for_averaging :
       /\ Observers(c) = {}
       /\ \A j \in DOMAIN result : result[j][c] = TYPICAL_VALUES[c]

\* the typical-value fallback meets a column that is empty after tiers 1
\* and 2 and whose name TYPICAL_VALUES does not have
FallbackMissesKey ==
  \E c \in Range(out_columns) : LeftEmpty(c) /\ c \notin DOMAIN TYPICAL_VALUES

\* C11: the call fails exactly when the typical-value fallback is reached
\* for a column whose name is not a key of TYPICAL_VALUES: every failure is
\* that KeyError, and a call that returns a table met no such column
C11_FailsExactlyOnMissingKey ==
  /\ pc = "error" => err = "KeyError" /\ FallbackMissesKey
  /\ pc = "done" => ~FallbackMissesKey

\* C12: on the end-to-end scenario the call returns two rows, P1 with
\* X_trend = 1 and Y = 5, P2 with X_trend = 0 and Y = 5
C12_EndToEndScenario ==
  df_train = ScenarioTable =>
    /\ pc # "error"
    /\ pc = "done" =>
         /\ Len(result) = 2
         /\ ResultRow(Num(1))[Feature \o "_trend"] = Num(1)
         /\ ResultRow(Num(1))["Age"] = Num(5)
         /\ ResultRow(Num(2))[Feature \o "_trend"] = Num(0)
         /\ ResultRow(Num(2))["Age"] = Num(5)

\* the patients with at most 8 missing values in column c
WithinLimit(c) == {p \in InputPids : MissingCount(p, c) <= 8}

\* C13 as stated: at least 75% of the patients have at most 8 missing
\* values in every column classified trend-eligible
C13_ThreeQuarters ==
  Classified =>
    \A c \in Range(columns_for_regression) :
      4 * Cardinality(WithinLimit(c)) >= 3 * Cardinality(InputPids)

\* C13: at least 25% of the patients have at most 8 missing values in every
\* column classified trend-eligible
C13_OneQuarter ==
  Classified =>
    \A c \in Range(columns_for_regression) :
      4 * Cardinality(WithinLimit(c)) >= Cardinality(InputPids)

\* a trend-eligible column in which a single patient has at most 8 missing
\* values and the other patients, two or more, have more
C13_Witness ==
  /\ Classified
  /\ \E c \in Range(columns_for_regression) :
       /\ Cardinality(WithinLimit(c)) = 1
       /\ Cardinality(InputPids) >= 3

\* C14: the trend columns and the average columns partition the
\* non-identifier columns: each is in exactly one of the two sets, the sets
\* are disjoint, and pid and Time are in neither
C14_Partition ==
  Classified =>
    LET trend == Range(columns_for_regression)
    IN  /\ \A c \in FeatureColumns : (c \in trend) # (c \in columns_for_averaging)
        /\ trend \cap columns_for_averaging = {}
        /\ trend \cup columns_for_averaging = FeatureColumns
        /\ {"pid", "Time"} \cap (trend \cup columns_for_averaging) = {}

\* a classified table with a trend column and an average column
C14_Witness ==
  /\ Classified
  /\ columns_for_regression # <<>>
  /\ columns_for_averaging # {}
  /\ {"pid", "Time"} \subseteq Range(df_columns)

\* C15: the call leaves the observation table as it was: the same rows,
\* columns and cells, the missing ones included
C15_InputUnchanged == [][df_train' = df_train /\ df_columns' = df_columns]_vars

\* a returned table for an observation table that still has a missing cell
\* in an average-only column with an observed value
C15_Witness ==
  /\ pc = "done"
  /\ result # <<>>
  /\ \E c \in columns_for_averaging : \E k, m \in DOMAIN df_train :
       IsNa(df_train[k][c]) /\ ~IsNa(df_train[m][c])

\* the classifier of a second call is about to classify: the lists of the
\* first call are in view
SecondClassification == pc = "classify" /\ columns_for_averaging # {}

C17_FillBetween ==
  (pc = "trend" /\ i <= Len(pid)) =>
    \A x \in Range(columns_for_regression) :
      LET series == PatientCells(pid[i], x)
          obs == {k \in DOMAIN series : ~IsNa(series[k])}
          first == CHOOSE k \in obs : \A m \in obs : k <= m
          last == CHOOSE k \in obs : \A m \in obs : m <= k
          filled == FillBetween(PatientSeries(df_train, pid[i], x))
      IN  FitsTrend(pid[i], x) =>
            /\ filled = SpecFillBetween(series)
            /\ obs # {} => Len(filled) = last - first + 1

\* a returned table for a patient whose series has a leading gap, a gap of
\* two cells and a trailing gap: the fitted series has four cells, the two
\* gap cells hold the same average
C17_Witness ==
  /\ pc = "done"
  /\ InSeq(Feature, columns_for_regression)
  /\ PatientCells(Num(1), Feature) \in GapSeries
  /\ FillBetween(PatientSeries(df_train, Num(1), Feature)) =
       <<Num(1), RDiv(Num(1 + MaxVal), Num(2)), RDiv(Num(1 + MaxVal), Num(2)),
         Num(MaxVal)>>

\* C18: in a trend-eligible column a patient with more than 8 missing
\* values gets X_trend = 0 in the returned table
C18_OverLimitGetsZero ==
  pc = "done" =>
    \A p \in InputPids : \A x \in Range(columns_for_regression) :
      MissingCount(p, x) > 8 => ResultRow(p)[x \o "_trend"] = Num(0)

\* a returned table where such a patient has the cell 0 and the median of
\* the other patients' slopes is not 0
C18_Witness ==
  /\ pc = "done"
  /\ \E p \in InputPids : \E x \in Range(columns_for_regression) :
       /\ MissingCount(p, x) > 8
       /\ ResultRow(p)[x \o "_trend"] = Num(0)
       /\ SpecMedian([q \in InputPids \ {p} |-> ResultRow(q)[x \o "_trend"]]) # Num(0)

\* C19: a pass of the trend loop or of the averaging loop for patient p
\* leaves the rows of the other patients of the summary table as they were,
\* and a cell it writes in row p is determined by the rows of p alone: the
\* least-squares slope of p's own filled series, or the median of p's own
\* observed values (missing when p has none)
C19_PatientLocal ==
  [][(pc \in {"trend", "average"} /\ i <= Len(pid) /\ pc' = pc) =>
       LET p == pid[i]
       IN  /\ \A q \in InputPids \ {p} :
                df_train_preprocessed'[q] = df_train_preprocessed[q]
           /\ \A c \in Range(out_columns) :
                LET new == df_train_preprocessed'[p][c]
                    fits == {x \in Range(columns_for_regression) :
                               c = x \o "_trend" /\ MissingCount(p, x) <= 8}
                IN  IF pc = "trend" /\ fits # {}
                    THEN \A x \in fits :
                           IsOlsSlope(SpecFillBetween(PatientCells(p, x)), new)
                    ELSE IF pc = "average" /\ c \in columns_for_averaging
                    THEN new = IF ObsRows(p, c) = {} THEN NaN ELSE OwnMedian(p, c)
                    ELSE new = df_train_preprocessed[p][c]]_vars

\* both loops have run, the last patient of the table first, and two
\* patients differ in a cell that a loop wrote
C19_Witness ==
  /\ pc = "average"
  /\ i > Len(pid)
  /\ pid[1] # Num(1)
  /\ \E c \in Range(out_columns) : \E p, q \in InputPids :
       /\ ~IsNa(df_train_preprocessed[p][c])
       /\ ~IsNa(df_train_preprocessed[q][c])
       /\ df_train_preprocessed[p][c] # df_train_preprocessed[q][c]

\* C20: the median fill and the typical-value fallback leave every cell
\* that holds a value after tiers 1 and 2 as it is, up to the returned
\* table; the fallback changes a column only when no patient had a value
\* in it
C20_KeepsComputed ==
  [][/\ ((pc = "average" /\ i > Len(pid)) \/ pc = "typical") =>
          \A p \in InputPids : \A c \in Range(out_columns) :
            ~IsNa(df_train_preprocessed[p][c]) =>
              df_train_preprocessed'[p][c] = df_train_preprocessed[p][c]
     /\ pc = "typical" =>
          \A c \in Range(out_columns) :
            (\E p \in InputPids :
               df_train_preprocessed'[p][c] # df_train_preprocessed[p][c]) =>
              /\ \A p \in InputPids : IsNa(df_train_preprocessed[p][c])
              /\ LeftEmpty(c)
     /\ pc = "reset_index" =>
          \A j \in DOMAIN result' : \A c \in Range(out_columns) :
            result'[j][c] = df_train_preprocessed[result'[j]["pid"]][c]]_vars

\* a returned table with a column that got its typical value next to an
\* average-only column where one patient kept the own median and another
\* got the median fill
C20_Witness ==
  /\ pc = "done"
  /\ \E c \in Range(out_columns) :
       LeftEmpty(c) /\ \A j \in DOMAIN result : result[j][c] = TYPICAL_VALUES[c]
  /\ \E c \in columns_for_averaging : \E p, q \in InputPids :
       /\ ObsRows(p, c) # {} /\ ObsRows(q, c) = {}
       /\ ResultRow(p)[c] = OwnMedian(p, c)
       /\ ResultRow(q)[c] # TYPICAL_VALUES[c]

\* C22: no triplet row is yielded in two different batches: a yielded
\* batch has no row of a batch yielded before
C22_NoRowTwice ==
  pc_gen = "yield" => batch_images \cap served = {}

\* C23: for a non-empty frame the generator stops after finitely many
\* batches: the loop exits and the generator is exhausted (a call ended by
\* an exception is counted as stopped too, so that only a loop that goes on
\* for ever refutes this)
C23_Terminates ==
  (pc_gen = "created" /\ df_to_load # {}) ~> pc_gen \in {"exhausted", "error"}

\* C24: the generator never fails on the sample, and a batch drawn from a
\* frame with fewer than BATCH_SIZE rows has as many rows as the frame
C24_BatchClamped ==
  /\ pc_gen # "error"
  /\ pc_gen = "yield" =>
       Cardinality(batch_images) =
         IF Cardinality(df_to_load \cup batch_images) < BATCH_SIZE
         THEN Cardinality(df_to_load \cup batch_images) ELSE BATCH_SIZE

\* C21: the prediction computed from a row of the test table stands in the
\* returned row with the pid of that row, for every test
C21_PredictionOfOwnRow ==
  pc_pred = "done" =>
    \A k \in DOMAIN df_test : \A t \in DOMAIN topred :
      \E j \in DOMAIN predictions :
        /\ predictions[j]["pid"] = df_test[k].pid
        /\ predictions[j][topred[t]] = Model(t, df_test[k].feature)

\* C25: the exported label table has as many rows as the exported feature
\* table, and row k of the labels has the pid of row k of the features
C25_LabelsAligned ==
  pc = "merged" =>
    /\ Len(df_train_label_preprocessed) = Len(result)
    /\ \A k \in DOMAIN result \cap DOMAIN df_train_label_preprocessed :
         df_train_label_preprocessed[k]["pid"] = result[k]["pid"]

====
